---- MODULE Spec2Model ----
(***************************************************************************)
(* Model of the Databricks SQLAlchemy dialect:                             *)
(*   databricks/sqlalchemy/dialect/base.py     (DDL compiler, preparer)    *)
(*   databricks/sqlalchemy/dialect/compiler.py (type compiler)             *)
(*                                                                         *)
(* SQL text is a sequence of atoms.  An atom is either a literal fragment  *)
(* of a template in the source ("\nCREATE ", " USING DELTA", ...) or one   *)
(* character of an identifier, a comment or a number.  Identifiers are     *)
(* kept character by character because the code splits rendered text on    *)
(* "." and the preparer quotes by inspecting characters.  An optional      *)
(* value (Python None or a value) is a sequence of length at most one.     *)
(***************************************************************************)
EXTENDS Integers, Sequences, FiniteSets, TLC

\* op, arg : the hook the host calls and its argument
\* pc      : "call" before the hook has run, "done" after
\* ret     : the outcome of the hook
\* calls   : the self.process calls visit_create_table made, in order
VARIABLES op, arg, pc, ret, calls

vars == <<op, arg, pc, ret, calls>>

\* ----------------------------------------------------------------- bounds
MaxCols == 3
MaxNum == 11

\* ------------------------------------------------------------ text helpers
None == <<>>

Some(v) == <<v>>

\* str.join
RECURSIVE join(_, _)
join(sep, parts) ==
    IF parts = <<>> THEN <<>>
    ELSE IF Len(parts) = 1 THEN parts[1]
    ELSE parts[1] \o sep \o join(sep, Tail(parts))

\* str.split(sep) for a one-character separator: always returns at least
\* one part, and k separators give k + 1 parts.
RECURSIVE split(_, _)
split(s, sep) ==
    IF s = <<>> THEN << <<>> >>
    ELSE LET rest == split(Tail(s), sep)
         IN IF Head(s) = sep
            THEN << <<>> >> \o rest
            ELSE << <<Head(s)>> \o rest[1] >> \o Tail(rest)

\* str.replace(old, new) for a one-character old
RECURSIVE replace(_, _, _)
replace(s, old, new) ==
    IF s = <<>> THEN <<>>
    ELSE (IF Head(s) = old THEN new ELSE <<Head(s)>>)
         \o replace(Tail(s), old, new)

Contains(s, a) == \E i \in 1..Len(s) : s[i] = a

IsPrefix(p, s) == Len(p) <= Len(s) /\ SubSeq(s, 1, Len(p)) = p

\* the text p occurs in s starting at position i
OccursAt(p, s, i) ==
    i >= 1 /\ i + Len(p) - 1 <= Len(s) /\ SubSeq(s, i, i + Len(p) - 1) = p

\* str(n) for a natural number
Digit(d) ==
    CASE d = 0 -> "0" [] d = 1 -> "1" [] d = 2 -> "2" [] d = 3 -> "3"
      [] d = 4 -> "4" [] d = 5 -> "5" [] d = 6 -> "6" [] d = 7 -> "7"
      [] d = 8 -> "8" [] d = 9 -> "9"

RECURSIVE str(_)
str(n) == IF n < 10 THEN <<Digit(n)>> ELSE str(n \div 10) \o <<Digit(n % 10)>>

\* "{}".format(v): None is rendered as the text None
format(v) == IF v = None THEN <<"None">> ELSE str(v[1])

\* ------------------------------------------------- identifier preparer
LowerCase == {"a", "b", "c", "d", "e", "p", "q", "s", "t", "x", "y"}
UpperCase == {"T"}
Digits == {"0", "1", "2", "3", "4", "5", "6", "7", "8", "9"}

\* legal_characters = re.compile(r"^[A-Z0-9_]+$", re.I)
legal_characters(value) ==
    /\ value # <<>>
    /\ \A i \in 1..Len(value) : value[i] \in LowerCase \cup UpperCase \cup Digits \cup {"_"}

\* initial_quote is the backtick, written here as the atom "BACKTICK";
\* the final quote defaults to the initial one
initial_quote == "BACKTICK"

\* IdentifierPreparer._requires_quotes with the dialect's legal_characters
\* (no name of the model is a reserved word)
_requires_quotes(value) ==
    \/ ~legal_characters(value)
    \/ value[1] \in Digits
    \/ \E i \in 1..Len(value) : value[i] \in UpperCase

\* IdentifierPreparer.quote: wrap in the quote and double every embedded one
quote(value) ==
    IF _requires_quotes(value)
    THEN <<initial_quote>>
         \o replace(value, initial_quote, <<initial_quote, initial_quote>>)
         \o <<initial_quote>>
    ELSE value

\* IdentifierPreparer.format_table(table, use_schema=True)
format_table(table, use_schema) ==
    IF use_schema /\ table.schema # None
    THEN quote(table.schema[1]) \o <<".">> \o quote(table.name)
    ELSE quote(table.name)

\* IdentifierPreparer.format_column(column, use_table, use_schema)
format_column(table, column, use_table, use_schema) ==
    IF use_table
    THEN format_table(table, use_schema) \o <<".">> \o quote(column.name)
    ELSE quote(column.name)

\* SQLCompiler.render_literal_value(value, String()): '...' with ' doubled
render_literal_value(value) ==
    <<"'">> \o replace(value, "'", <<"'", "'">>) \o <<"'">>

\* ------------------------------------------------------- type compiler
visit_INTEGER(type_) == <<"INT">>

visit_NUMERIC_scale_first(type_) ==
    IF type_.scale = None
    THEN (IF type_.precision = None THEN <<"DECIMAL">>
          ELSE <<"DECIMAL(">> \o format(type_.precision) \o <<")">>)
    ELSE <<"DECIMAL(">> \o format(type_.precision) \o <<", ">>
         \o format(type_.scale) \o <<")">>

visit_NUMERIC(type_) ==
    IF type_.precision = None
    THEN <<"DECIMAL">>
    ELSE IF type_.scale = None
    THEN <<"DECIMAL(">> \o format(type_.precision) \o <<")">>
    ELSE <<"DECIMAL(">> \o format(type_.precision) \o <<", ">>
         \o format(type_.scale) \o <<")">>


\* ------------------------------------------------- outcomes of a call
\* A call either returns a text (or None) or raises an exception.  "cause"
\* is the exception chained as __cause__ (None when there is none).
Return(text) ==
    [kind |-> "return", text |-> text, exc |-> "", msg |-> <<>>, cause |-> None]

ReturnNone ==
    [kind |-> "none", text |-> <<>>, exc |-> "", msg |-> <<>>, cause |-> None]

Raise(exc, msg, cause) ==
    [kind |-> "raise", text |-> <<>>, exc |-> exc, msg |-> msg, cause |-> cause]

\* dialect.type_compiler.process(column.type): dispatch on the type.  The
\* host raises CompileError for a column without a type (NullType); a type
\* object the compiler cannot visit surfaces as an exception of another
\* class.
type_compiler_process(type_) ==
    CASE type_.name = "INTEGER" -> Return(visit_INTEGER(type_))
      [] type_.name = "NUMERIC" -> Return(visit_NUMERIC(type_))
      [] type_.name = "NullType" ->
            Raise("CompileError", <<"Can't generate DDL for NullType()">>, None)
      [] OTHER -> Raise("AttributeError", <<"no visit method">>, None)

\* ------------------------------------------------------- DDL compiler
post_create_table_empty(table) == <<>>

post_create_table(table) == <<" USING DELTA">>

\* get_column_specification; column.computed and column.identity are None
\* (Column.__init__ sets both), which leaves the default and NOT NULL parts.
get_column_specification(table, column) ==
    LET t == type_compiler_process(column.type)
    IN IF t.kind = "raise" THEN t
       ELSE Return(
              format_column(table, column, FALSE, FALSE) \o <<" ">> \o t.text
              \o (IF column.server_default # None
                  THEN <<" DEFAULT ">> \o column.server_default[1] ELSE <<>>)
              \o (IF ~column.nullable THEN <<" NOT NULL">> ELSE <<>>))

\* self.process(create_column, first_pk=...): the host's visit_create_column
\* returns None for a system column and otherwise the column specification
\* (the columns of the model carry no column-level constraints).
process(table, column, first_pk) ==
    IF column.system THEN ReturnNone
    ELSE get_column_specification(table, column)

\* table.description is the table's name, unquoted
description(table) == table.name

\* the create_table_suffix of the host is empty
create_table_suffix(table) == <<>>

\* create_table_constraints: the host's rendering of the table constraints
create_table_constraints(table) == table.const

\* the first_pk argument of line 292
first_pk_every_pk(column, first_pk) == column.primary_key

first_pk_arg(column, first_pk) == column.primary_key /\ ~first_pk

\* except exc.CompileError: which exception classes the handler catches
catches_all(exc) == TRUE

catches(exc) == exc = "CompileError"

\* the exception raised from the handler
wrap_compile_error(table, column, ce) ==
    Raise("CompileError",
          <<"(in table '">> \o description(table) \o <<"', column '">>
          \o column.name \o <<"'): ">> \o ce.msg,
          Some(ce))

\* lines 294-297: append one processed column
append_always(st, processed) ==
    [st EXCEPT !.text = @ \o st.separator \o <<"\t">> \o processed.text,
               !.separator = <<", \n">>]

append_processed(st, processed) ==
    IF processed.kind # "none"
    THEN [st EXCEPT !.text = @ \o st.separator \o <<"\t">> \o processed.text,
                    !.separator = <<", \n">>]
    ELSE st

\* the for loop of visit_create_table, from column i on.  st holds the
\* locals text, separator, first_pk, liquid_clustering and
\* liquid_cluster_columns, the log of the process calls made (column name
\* and first_pk argument), and the exception leaving the loop, if any.
RECURSIVE create_columns(_, _, _)
create_columns(table, i, st) ==
    IF i > Len(table.columns) THEN st
    ELSE
      LET column == table.columns[i]
          flag == first_pk_arg(column, st.first_pk)
          processed == process(table, column, flag)
          called == [st EXCEPT !.calls =
                        Append(@, [name |-> column.name, first_pk |-> flag])]
      IN IF processed.kind = "raise"
         THEN [called EXCEPT !.raised =
                 Some(IF catches(processed.exc)
                      THEN wrap_compile_error(table, column, processed)
                      ELSE processed)]
         ELSE create_columns(table, i + 1,
                [append_processed(called, processed)
                   EXCEPT !.first_pk = @ \/ column.primary_key])

liquid_cluster_on_table(liquid_cluster_columns) ==
    <<"CLUSTER BY (">> \o join(<<", ">>, liquid_cluster_columns) \o <<")">>

\* visit_create_table: the result and the log of process calls
visit_create_table(table) ==
    LET head == <<"\nCREATE ">>
                \o (IF table._prefixes # <<>>
                    THEN join(<<" ">>, table._prefixes) \o <<" ">> ELSE <<>>)
                \o <<"TABLE IF NOT EXISTS ">>
                \o format_table(table, TRUE) \o <<" ">>
                \o (IF create_table_suffix(table) # <<>>
                    THEN create_table_suffix(table) \o <<" ">> ELSE <<>>)
                \o <<"(">>
        st0 == [text |-> head, separator |-> <<"\n">>, first_pk |-> FALSE,
                liquid_clustering |-> FALSE, liquid_cluster_columns |-> <<>>,
                calls |-> <<>>, raised |-> None]
        st == create_columns(table, 1, st0)
        const == create_table_constraints(table)
        body == st.text
                \o (IF const # <<>> THEN st.separator \o <<"\t">> \o const
                    ELSE <<>>)
                \o <<"\n)">> \o post_create_table(table) \o <<"\n\n">>
        text == body
                \o (IF st.liquid_clustering
                    THEN <<"\n">>
                         \o liquid_cluster_on_table(st.liquid_cluster_columns)
                         \o <<"\n\n">>
                    ELSE <<>>)
    IN [calls |-> st.calls,
        ret |-> IF st.raised # None THEN st.raised[1] ELSE Return(text)]

visit_drop_table_unguarded(table) ==
    <<"\nDROP TABLE ">> \o format_table(table, TRUE)

visit_drop_table(table) ==
    <<"\nDROP TABLE IF EXISTS ">> \o format_table(table, TRUE)

_format_table_from_column(table, column, use_schema) ==
    LET schema_table_column == format_column(table, column, TRUE, TRUE)
        parts == split(schema_table_column, ".")
        name == parts[2]
    IN IF use_schema THEN parts[1] \o <<".">> \o name ELSE name

visit_set_column_comment(table, column) ==
    <<"ALTER TABLE ">> \o _format_table_from_column(table, column, TRUE)
    \o <<" CHANGE COLUMN ">> \o format_column(table, column, FALSE, FALSE)
    \o <<" COMMENT ">> \o render_literal_value(column.comment)

visit_drop_column_comment(table, column) ==
    <<"ALTER TABLE ">> \o _format_table_from_column(table, column, TRUE)
    \o <<" CHANGE COLUMN ">> \o format_column(table, column, FALSE, FALSE)
    \o <<" COMMENT ", "'", "'", ";">>


\* ------------------------------------------------------------- inputs
INTEGER == [name |-> "INTEGER", precision |-> None, scale |-> None]
NUMERIC(p, s) == [name |-> "NUMERIC", precision |-> p, scale |-> s]
NullType == [name |-> "NullType", precision |-> None, scale |-> None]
Opaque == [name |-> "Opaque", precision |-> None, scale |-> None]

\* Column(name, type_, primary_key=..., nullable=..., system=...,
\*        server_default=..., comment=..., liquid_cluster=...);
\* nullable defaults to not primary_key
Col(name, type_, pk, system, liquid_cluster, server_default) ==
    [name |-> name, type |-> type_, primary_key |-> pk, nullable |-> ~pk,
     system |-> system, liquid_cluster |-> liquid_cluster,
     server_default |-> server_default, comment |-> <<>>]

Columns ==
    { Col(<<"c">>, INTEGER, FALSE, FALSE, None, None),
      Col(<<"i", "d">>, INTEGER, TRUE, FALSE, None, None),
      Col(<<"k">>, NUMERIC(Some(10), Some(2)), TRUE, FALSE, Some(TRUE), None),
      Col(<<"x", ".", "y">>, NUMERIC(Some(5), None), FALSE, FALSE, Some(TRUE),
          Some(<<"0">>)),
      Col(<<"T">>, INTEGER, FALSE, FALSE, Some(FALSE), None),
      Col(<<"s", "y", "s">>, INTEGER, FALSE, TRUE, None, None),
      Col(<<"r">>, INTEGER, TRUE, TRUE, None, None),
      Col(<<"n">>, NullType, FALSE, FALSE, None, None),
      Col(<<"m">>, NullType, TRUE, FALSE, Some(TRUE), None),
      Col(<<"o">>, Opaque, FALSE, FALSE, None, None) }

Schemas == {None, Some(<<"s">>), Some(<<"p", ".", "q">>)}
TableNames == {<<"t">>, <<"a", ".", "b">>}
Prefixes == {<<>>, << <<"TEMPORARY">> >>, << <<"TEMPORARY">>, <<"EXTERNAL">> >>}
Constraints == {<<>>, <<"CHECK (1 = 1)">>}
Comments == {<<>>, <<"h", "i">>, <<"i", "t", "'", "s">>}

Injective(f) == \A i, j \in DOMAIN f : f[i] = f[j] => i = j

\* the columns of a table have distinct names, in declaration order
ColumnLists ==
    { cs \in UNION { [1..n -> Columns] : n \in 0..MaxCols } : Injective(cs) }

Table(schema, name, prefixes, columns, const) ==
    [schema |-> schema, name |-> name, _prefixes |-> prefixes,
     columns |-> columns, const |-> const]

NoTable == Table(None, <<"t">>, <<>>, <<>>, <<>>)
NoColumn == Col(<<"c">>, INTEGER, FALSE, FALSE, None, None)

OptNum == {None} \cup { Some(n) : n \in 0..MaxNum }

Arg(table, column, use_schema, type_) ==
    [table |-> table, column |-> column, use_schema |-> use_schema,
     type_ |-> type_]

\* ------------------------------------------------------ state machine
\* The host compiler calls one hook at a time, and a hook keeps nothing
\* between calls: a behaviour is one call.  Init draws the hook (op) and
\* its argument; the action of the hook computes its outcome.
TableHeads ==
    { Table(schema, name, <<>>, <<>>, <<>>) :
        schema \in Schemas, name \in TableNames }

Tables ==
    { Table(schema, name, prefixes, columns, const) :
        schema \in Schemas, name \in TableNames, prefixes \in Prefixes,
        columns \in ColumnLists, const \in Constraints }

CommentedColumns ==
    { [c EXCEPT !.comment = comment] : c \in Columns, comment \in Comments }

Init ==
    /\ pc = "call"
    /\ ret = ReturnNone
    /\ calls = <<>>
    /\ \/ /\ op = "visit_create_table"
          /\ \E table \in Tables : arg = Arg(table, NoColumn, FALSE, INTEGER)
       \/ /\ op = "visit_drop_table"
          /\ \E table \in TableHeads :
               arg = Arg(table, NoColumn, FALSE, INTEGER)
       \/ /\ op \in {"visit_set_column_comment", "visit_drop_column_comment"}
          /\ \E table \in TableHeads, column \in CommentedColumns :
               arg = Arg(table, column, TRUE, INTEGER)
       \/ /\ op = "_format_table_from_column"
          /\ \E table \in TableHeads, column \in Columns,
                use_schema \in BOOLEAN :
               arg = Arg(table, column, use_schema, INTEGER)
       \/ /\ op = "visit_NUMERIC"
          /\ \E precision \in OptNum, scale \in OptNum :
               arg = Arg(NoTable, NoColumn, FALSE, NUMERIC(precision, scale))

VisitCreateTable ==
    /\ pc = "call" /\ op = "visit_create_table"
    /\ LET r == visit_create_table(arg.table)
       IN ret' = r.ret /\ calls' = r.calls
    /\ pc' = "done"
    /\ UNCHANGED <<op, arg>>

VisitDropTable ==
    /\ pc = "call" /\ op = "visit_drop_table"
    /\ ret' = Return(visit_drop_table(arg.table))
    /\ pc' = "done"
    /\ UNCHANGED <<op, arg, calls>>

VisitSetColumnComment ==
    /\ pc = "call" /\ op = "visit_set_column_comment"
    /\ ret' = Return(visit_set_column_comment(arg.table, arg.column))
    /\ pc' = "done"
    /\ UNCHANGED <<op, arg, calls>>

VisitDropColumnComment ==
    /\ pc = "call" /\ op = "visit_drop_column_comment"
    /\ ret' = Return(visit_drop_column_comment(arg.table, arg.column))
    /\ pc' = "done"
    /\ UNCHANGED <<op, arg, calls>>

FormatTableFromColumn ==
    /\ pc = "call" /\ op = "_format_table_from_column"
    /\ ret' = Return(_format_table_from_column(arg.table, arg.column,
                                               arg.use_schema))
    /\ pc' = "done"
    /\ UNCHANGED <<op, arg, calls>>

VisitNUMERIC ==
    /\ pc = "call" /\ op = "visit_NUMERIC"
    /\ ret' = Return(visit_NUMERIC(arg.type_))
    /\ pc' = "done"
    /\ UNCHANGED <<op, arg, calls>>

Next ==
    \/ VisitCreateTable
    \/ VisitDropTable
    \/ VisitSetColumnComment
    \/ VisitDropColumnComment
    \/ FormatTableFromColumn
    \/ VisitNUMERIC

Spec == Init /\ [][Next]_vars

TypeOK ==
    /\ pc \in {"call", "done"}
    /\ op \in {"visit_create_table", "visit_drop_table",
               "visit_set_column_comment", "visit_drop_column_comment",
               "_format_table_from_column", "visit_NUMERIC"}
    /\ ret.kind \in {"return", "none", "raise"}


\* ------------------------------------------------------------- claims
Done(o) == pc = "done" /\ op = o

Returned(o) == Done(o) /\ ret.kind = "return"

\* the positions of atom a in text s
Positions(s, a) == { i \in 1..Len(s) : s[i] = a }

\* every prefix followed by one space
RECURSIVE EachWithSpace(_)
EachWithSpace(ps) ==
    IF ps = <<>> THEN <<>> ELSE Head(ps) \o <<" ">> \o EachWithSpace(Tail(ps))

\* the quoted, schema-qualified name of a table
QualifiedName(table) ==
    IF table.schema # None
    THEN quote(table.schema[1]) \o <<".">> \o quote(table.name)
    ELSE quote(table.name)

\* C1: the text visit_create_table returns starts with "\nCREATE ", the
\* prefixes each followed by a space, "TABLE IF NOT EXISTS " and the
\* formatted table name, and the ")" closing the column list is immediately
\* followed by " USING DELTA".
Thm_C1 ==
    Returned("visit_create_table") =>
      /\ IsPrefix(<<"\nCREATE ">> \o EachWithSpace(arg.table._prefixes)
                  \o <<"TABLE IF NOT EXISTS ">> \o QualifiedName(arg.table),
                  ret.text)
      /\ Cardinality(Positions(ret.text, "\n)")) = 1
      /\ \A i \in Positions(ret.text, "\n)") :
            i < Len(ret.text) /\ ret.text[i + 1] = " USING DELTA"

Wit_C1 ==
    /\ Returned("visit_create_table")
    /\ Len(arg.table._prefixes) = 2
    /\ arg.table.schema # None
    /\ Len(arg.table.columns) = 0
    /\ arg.table.const # <<>>

\* the names of the columns selected for liquid clustering, in order
RECURSIVE ClusterNames(_)
ClusterNames(cols) ==
    IF cols = <<>> THEN <<>>
    ELSE (IF Head(cols).liquid_cluster = Some(TRUE)
          THEN <<Head(cols).name>> ELSE <<>>) \o ClusterNames(Tail(cols))

\* C2: with columns selected for liquid clustering the returned text has,
\* after USING DELTA, the clause CLUSTER BY (c1, c2, ...) over exactly the
\* selected names in declaration order; with none selected it has no
\* CLUSTER BY clause.
Cex_C2 ==
    Returned("visit_create_table") =>
      LET sel == ClusterNames(arg.table.columns)
          clause == <<"CLUSTER BY (">> \o join(<<", ">>, sel) \o <<")">>
      IN IF sel # <<>>
         THEN \E i \in Positions(ret.text, " USING DELTA") :
                \E j \in (i + 1)..Len(ret.text) : OccursAt(clause, ret.text, j)
         ELSE ~Contains(ret.text, "CLUSTER BY (")

\* C3: visit_drop_column_comment returns ALTER TABLE <schema.table> CHANGE
\* COLUMN <column> COMMENT '' with no DROP keyword, the same text as
\* visit_set_column_comment for the column with the empty comment.
Cex_C3 ==
    Done("visit_drop_column_comment") =>
      /\ ret.text = <<"ALTER TABLE ">> \o QualifiedName(arg.table)
                    \o <<" CHANGE COLUMN ">> \o quote(arg.column.name)
                    \o <<" COMMENT ", "'", "'">>
      /\ ~Contains(ret.text, "DROP")
      /\ ret.text = visit_set_column_comment(
                        arg.table, [arg.column EXCEPT !.comment = <<>>])

\* the outcome of processing a column on its own
Outcome(table, column) == process(table, column, FALSE)

\* the index of the first column whose processing raises, 0 if none does
FirstRaising(table) ==
    LET failing == { i \in 1..Len(table.columns) :
                        Outcome(table, table.columns[i]).kind = "raise" }
    IN IF failing = {} THEN 0
       ELSE CHOOSE i \in failing : \A j \in failing : i <= j

\* C4: if processing a column raises CompileError, visit_create_table
\* returns no text and raises CompileError "(in table '<description>',
\* column '<name>'): <original message>" for the first failing column, the
\* original exception as its cause; later columns are not processed; an
\* exception of another class leaves unchanged.
Thm_C4 ==
    Done("visit_create_table") =>
      LET k == FirstRaising(arg.table)
      IN IF k = 0 THEN ret.kind = "return"
         ELSE LET column == arg.table.columns[k]
                  ce == Outcome(arg.table, column)
              IN /\ ret.kind = "raise"
                 /\ ret.text = <<>>
                 /\ Len(calls) = k
                 /\ calls[k].name = column.name
                 /\ IF ce.exc = "CompileError"
                    THEN /\ ret.exc = "CompileError"
                         /\ ret.msg = <<"(in table '">> \o arg.table.name
                                      \o <<"', column '">> \o column.name
                                      \o <<"'): ">> \o ce.msg
                         /\ ret.cause = Some(ce)
                    ELSE ret = ce

Wit_C4 ==
    /\ Done("visit_create_table")
    /\ Len(arg.table.columns) = 3
    /\ FirstRaising(arg.table) = 2
    /\ arg.table.columns[2].type = NullType
    /\ arg.table.columns[3].type = NullType
    /\ ret.kind = "raise" /\ ret.exc = "CompileError"

\* C5: visit_drop_table returns exactly "\nDROP TABLE IF EXISTS " followed
\* by the formatted table name.
Thm_C5 ==
    Done("visit_drop_table") =>
      /\ ret.kind = "return"
      /\ ret.text = <<"\nDROP TABLE IF EXISTS ">> \o QualifiedName(arg.table)

Wit_C5 ==
    /\ Done("visit_drop_table")
    /\ arg.table.schema = Some(<<"p", ".", "q">>)
    /\ arg.table.name = <<"a", ".", "b">>

\* C6: _format_table_from_column returns <schema>.<table> with use_schema
\* and a schema, and <table> otherwise: the quoted table name, never the
\* column's name.
Cex_C6 ==
    Done("_format_table_from_column") =>
      ret.text = IF arg.use_schema /\ arg.table.schema # None
                 THEN quote(arg.table.schema[1]) \o <<".">>
                      \o quote(arg.table.name)
                 ELSE quote(arg.table.name)

\* C7: the first_pk argument is True for the first primary-key column in
\* declaration order and False for every other column; a call that
\* returns has passed True exactly once when the table has a primary key
\* and never otherwise.
Thm_C7 ==
    Done("visit_create_table") =>
      LET cols == arg.table.columns
          pks == { i \in 1..Len(cols) : cols[i].primary_key }
      IN /\ Len(calls) <= Len(cols)
         /\ \A j \in 1..Len(calls) :
              /\ calls[j].name = cols[j].name
              /\ calls[j].first_pk = (j \in pks /\ \A i \in pks : j <= i)
         /\ ret.kind = "return" =>
              /\ Len(calls) = Len(cols)
              /\ Cardinality({ j \in 1..Len(calls) : calls[j].first_pk })
                   = IF pks = {} THEN 0 ELSE 1

Wit_C7 ==
    /\ Returned("visit_create_table")
    /\ Len(calls) = 3
    /\ ~arg.table.columns[1].primary_key
    /\ arg.table.columns[2].primary_key
    /\ arg.table.columns[3].primary_key
    /\ calls[2].first_pk /\ ~calls[3].first_pk

\* the entries of the column list: a tab and the text of every column
\* whose processing returns a text, then a tab and the constraints if any
RECURSIVE Entries(_, _)
Entries(table, cols) ==
    IF cols = <<>>
    THEN (IF table.const # <<>> THEN << <<"\t">> \o table.const >> ELSE <<>>)
    ELSE (IF Outcome(table, Head(cols)).kind = "return"
          THEN << <<"\t">> \o Outcome(table, Head(cols)).text >> ELSE <<>>)
         \o Entries(table, Tail(cols))

\* C8: between "(" and the closing ")" the returned text is the entries in
\* declaration order, the first preceded by "\n" and every later one by
\* ", \n"; a column processed to None contributes nothing; the constraint
\* text comes last under the same separator rule.
Thm_C8 ==
    Returned("visit_create_table") =>
      LET entries == Entries(arg.table, arg.table.columns)
          expected == IF entries = <<>> THEN <<>>
                      ELSE <<"\n">> \o join(<<", \n">>, entries)
      IN \E p \in Positions(ret.text, "("), q \in Positions(ret.text, "\n)") :
            /\ p < q
            /\ SubSeq(ret.text, p + 1, q - 1) = expected

Wit_C8 ==
    /\ Returned("visit_create_table")
    /\ Len(arg.table.columns) = 3
    /\ ~arg.table.columns[1].system
    /\ arg.table.columns[2].system
    /\ ~arg.table.columns[3].system
    /\ arg.table.const # <<>>

\* C9: visit_NUMERIC renders DECIMAL without a precision, DECIMAL(p) with
\* a precision only and DECIMAL(p, s) with both, and never the text None.
Thm_C9 ==
    Done("visit_NUMERIC") =>
      LET p == arg.type_.precision
          s == arg.type_.scale
      IN /\ ret.kind = "return"
         /\ ~Contains(ret.text, "None")
         /\ ret.text = CASE p = None -> <<"DECIMAL">>
                         [] p # None /\ s = None ->
                              <<"DECIMAL(">> \o str(p[1]) \o <<")">>
                         [] OTHER ->
                              <<"DECIMAL(">> \o str(p[1]) \o <<", ">>
                              \o str(s[1]) \o <<")">>

Wit_C9 ==
    /\ Done("visit_NUMERIC")
    /\ arg.type_.precision = None
    /\ arg.type_.scale = Some(2)
    /\ ret.text = <<"DECIMAL">>

====
